---- MODULE Spec2Model ----
(***************************************************************************)
(* Test-day model post-processing engine (am_tdm/testday_model.py).        *)
(*                                                                         *)
(* The module holds one state machine per step of TestDayModel that the    *)
(* properties below are about:                                             *)
(*   Spec     __read_blupf90_solutions__  (solution demultiplexer)         *)
(*   SpecPar  __add_updated_genetic_parameters__  (renf90.par rewrite)     *)
(*   SpecPev  __read_pev_pec__  (PEV-PEC unpacking and symmetrization)     *)
(*   SpecDRP  __compute_DRPs__  (deregressed proofs, Garrick)              *)
(*   SpecVar  __compute_variances_and_heritabilities__                     *)
(*   SpecParTwice  __add_updated_genetic_parameters__ applied twice        *)
(*   SpecCtor __init__  (the order of the steps and how it can end)        *)
(*   SpecFilter  __init__ from __add_pev_pec__ on, over control files      *)
(*   SpecCurve   __compute_fixed_curve_values__, __compute_random_curves_values__ *)
(* Every specification shares the layout fields set by __init__.           *)
(* Arrays are functions over 0-based index ranges; numpy's index rule      *)
(* (an index i of an axis of size n is legal iff -n <= i < n, a negative   *)
(* index addressing from the end) is modelled by AxisOK and AxisAt.        *)
(***************************************************************************)
EXTENDS Integers, Sequences, FiniteSets, TLC

\* Longest solution stream (records after the header) that is explored.
MaxRecords == 2
\* Most lines of other content before, between and after the blocks of renf90.par.
MaxFill == 2
\* Longest PEV-PEC stream that is explored.
MaxPevLines == 2
MaxFilterLines == 2

VARIABLES
    \* layout fields of the instance (testday_model.py:86-93, 110-117)
    lactation_dim, number_of_traits, animal_count, len_fixed_effects,
    fixed_degree, random_degree,
    \* __read_blupf90_solutions__
    FE, fixed_curve_coefficients, additive_coefficients, permanent_coefficients,
    solutions, sol_pc,
    \* __add_updated_genetic_parameters__
    renf90_par, par_original, par_pc, par_line, file_lines,
    read_residual, read_additive, read_permanent,
    residual_line, additive_line, permanent_line,
    \* how many times the routine has been called again on its own output
    par_reruns,
    \* __read_pev_pec__
    PEV_PECs, pev_pec_bf90, pev_pc,
    \* __compute_DRPs__: its inputs (renum.sires, renum.dams, avg_RELs,
    \* avg_heritabilities, EBVs at the last DIM point), its outputs, the values
    \* of the locals of the last call, and the number of calls made so far
    sires, dams, avg_RELs, avg_heritabilities, EBVs,
    DRPs, DRP_RELs, DRP_weights, drp_locals, drp_calls,
    \* the DIM range of the instance and __compute_variances_and_heritabilities__:
    \* the fields G, P and R it reads, the tensors it fills, and how it ended
    dim_range, self_G, self_P, self_R,
    var_G, var_P, var_R, heritabilities, repeatabilities,
    avg_var_G, avg_var_P, avg_repeatabilities, var_pc,
    \* __init__: its arguments (genomic_data is "None" or "given", an
    \* estimation_method of None is "None"), renum.has_perm, the step about to
    \* run (or how the constructor ended) and the steps that have run
    snp_effects, snp_p_values, genomic_data, estimation_method,
    ag_variance, res_variance, pe_variance, has_perm, use_blupf90_modules,
    ctor_pc, ctor_log,
    \* curve reconstruction: the fixed, additive (self.EBVs, all DIM offsets; EBVs
    \* above is its last column) and permanent curves, each value kept as its
    \* terms table[d, k] * coefficients[k], and the step about to run
    fixed_curve_values, EBV_values, PERMs, curve_pc

layoutVars == <<lactation_dim, number_of_traits, animal_count, len_fixed_effects,
                fixed_degree, random_degree>>
tensorVars == <<FE, fixed_curve_coefficients, additive_coefficients,
                permanent_coefficients>>
solVars == <<tensorVars, solutions, sol_pc>>
parFlags == <<read_residual, read_additive, read_permanent>>
parCounters == <<residual_line, additive_line, permanent_line>>
parVars == <<renf90_par, par_original, par_pc, par_line, file_lines, parFlags, parCounters,
             par_reruns>>
pevVars == <<PEV_PECs, pev_pec_bf90, pev_pc>>
drpInputs == <<sires, dams, avg_RELs, avg_heritabilities, EBVs>>
drpVars == <<drpInputs, DRPs, DRP_RELs, DRP_weights, drp_locals, drp_calls>>
varInputs == <<dim_range, self_G, self_P, self_R>>
varVars == <<varInputs, var_G, var_P, var_R, heritabilities, repeatabilities,
             avg_var_G, avg_var_P, avg_repeatabilities, var_pc>>
ctorConfig == <<snp_effects, snp_p_values, genomic_data, estimation_method,
                ag_variance, res_variance, pe_variance, has_perm, use_blupf90_modules>>
ctorVars == <<ctorConfig, ctor_pc, ctor_log>>
curveVars == <<fixed_curve_values, EBV_values, PERMs, curve_pc>>
vars == <<layoutVars, solVars, parVars, pevVars, drpVars, varVars, ctorVars, curveVars>>
\* What each routine leaves alone.
solRest == <<layoutVars, parVars, pevVars, drpVars, varVars, ctorVars, curveVars>>
parRest == <<layoutVars, solVars, pevVars, drpVars, varVars, ctorVars, curveVars, par_reruns>>
pevRest == <<layoutVars, solVars, parVars, drpVars, varVars, ctorVars, curveVars>>
drpRest == <<layoutVars, solVars, parVars, pevVars, varVars, ctorVars, curveVars>>
varRest == <<layoutVars, solVars, parVars, pevVars, sires, dams, avg_RELs, EBVs,
             DRPs, DRP_RELs, DRP_weights, drp_locals, drp_calls, curveVars>>
ctorRest == varRest
curveRest == <<layoutVars, solVars, parVars, pevVars, drpVars, varVars, ctorVars>>
\* What a step that only rewrites renf90.par leaves alone.
fileRest == <<layoutVars, solVars, par_original, par_pc, par_line, file_lines, parFlags,
              parCounters, par_reruns, pevVars, drpVars, varVars, ctorConfig, curveVars>>

----------------------------------------------------------------------------
(* numpy indexing *)

AxisOK(i, n) == -n <= i /\ i < n
AxisAt(i, n) == IF i < 0 THEN i + n ELSE i

IndexOK(index, shape) ==
    \A d \in 1..Len(shape) : AxisOK(index[d], shape[d])
IndexAt(index, shape) ==
    [d \in 1..Len(shape) |-> AxisAt(index[d], shape[d])]

Zeros3(a, b, c) == [i \in 0..(a - 1) |-> [j \in 0..(b - 1) |-> [k \in 0..(c - 1) |-> 0]]]
Zeros4(a, b, c, d) ==
    [i \in 0..(a - 1) |-> [j \in 0..(b - 1) |-> [k \in 0..(c - 1) |-> [m \in 0..(d - 1) |-> 0]]]]

----------------------------------------------------------------------------
(* layout *)

\* Layouts the solution demultiplexer is explored with: L lactations, T traits,
\* N animals, F fixed effects, fixed and random polynomial degrees.
SolLayouts ==
    { [L |-> 1, T |-> 2, N |-> 1, F |-> 1, fd |-> 0, rd |-> 1],
      [L |-> 2, T |-> 1, N |-> 1, F |-> 0, fd |-> 0, rd |-> 0] }

SetLayout(ly) ==
    /\ lactation_dim = ly.L
    /\ number_of_traits = ly.T
    /\ animal_count = ly.N
    /\ len_fixed_effects = ly.F
    /\ fixed_degree = ly.fd
    /\ random_degree = ly.rd

\* Shapes of the coefficient tensors allocated by __init__.
FixedShape == <<lactation_dim, number_of_traits, fixed_degree + 1>>
RandomShape == <<lactation_dim, number_of_traits, animal_count, random_degree + 1>>

\* Highest effect index of the layout: fixed effects, fixed curve, additive, permanent.
LastEffect == len_fixed_effects + fixed_degree + 2 * random_degree + 3

----------------------------------------------------------------------------
(* __read_blupf90_solutions__ *)

\* Values a solution may take (0 is the tensors' initial fill).
SolValues == {1, 2}

\* The lines the solver may write: indices inside the layout and one step outside.
SolRecords ==
    [trait : 0..(lactation_dim * number_of_traits + 1),
     effect : 0..(LastEffect + 1),
     level : 0..(animal_count + 1),
     solution : SolValues]

SolTargetStrict(rec) ==
    LET lact == (rec.trait - 1) \div number_of_traits
        trt == (rec.trait - 1) % number_of_traits
        F == len_fixed_effects
    IN  IF rec.effect < F
        THEN [tensor |-> "FE", index |-> <<>>]
        ELSE IF rec.effect <= F + fixed_degree + 1
        THEN [tensor |-> "fixed", index |-> <<lact, trt, rec.effect - F - 1>>]
        ELSE IF rec.effect <= F + fixed_degree + random_degree + 2
        THEN [tensor |-> "additive",
              index |-> <<lact, trt, rec.level - 1, rec.effect - F - fixed_degree - 2>>]
        ELSE [tensor |-> "permanent",
              index |-> <<lact, trt, rec.level - 1,
                          rec.effect - F - fixed_degree - random_degree - 3>>]

SolTargetAliased(rec) ==
    LET lact == (rec.trait - 1) \div number_of_traits
        trt == (rec.trait - 1) % number_of_traits
        F == len_fixed_effects
    IN  IF rec.effect <= F
        THEN [tensor |-> "FE", index |-> <<>>]
        ELSE IF rec.effect <= F + fixed_degree + 1
        THEN [tensor |-> "fixed", index |-> <<lact, trt, rec.effect - F - 1>>]
        ELSE IF rec.effect <= F + fixed_degree + random_degree + 2
        THEN [tensor |-> "additive",
              index |-> <<lact, trt, rec.level - 1, rec.effect - F - fixed_degree - 2>>]
        ELSE [tensor |-> "additive",
              index |-> <<lact, trt, rec.level - 1,
                          rec.effect - F - fixed_degree - random_degree - 3>>]

\* The if/elif chain of the loop body: which container a record goes to and the
\* index expression the assignment uses.
SolTarget(rec) ==
    LET lact == (rec.trait - 1) \div number_of_traits
        trt == (rec.trait - 1) % number_of_traits
        F == len_fixed_effects
    IN  IF rec.effect <= F
        THEN [tensor |-> "FE", index |-> <<>>]
        ELSE IF rec.effect <= F + fixed_degree + 1
        THEN [tensor |-> "fixed", index |-> <<lact, trt, rec.effect - F - 1>>]
        ELSE IF rec.effect <= F + fixed_degree + random_degree + 2
        THEN [tensor |-> "additive",
              index |-> <<lact, trt, rec.level - 1, rec.effect - F - fixed_degree - 2>>]
        ELSE [tensor |-> "permanent",
              index |-> <<lact, trt, rec.level - 1,
                          rec.effect - F - fixed_degree - random_degree - 3>>]

Store3(tensor, index, shape, value) ==
    LET c == IndexAt(index, shape)
    IN  [tensor EXCEPT ![c[1]][c[2]][c[3]] = value]
Store4(tensor, index, shape, value) ==
    LET c == IndexAt(index, shape)
    IN  [tensor EXCEPT ![c[1]][c[2]][c[3]][c[4]] = value]

SolInit ==
    /\ FE = <<>>
    /\ fixed_curve_coefficients = Zeros3(lactation_dim, number_of_traits, fixed_degree + 1)
    /\ additive_coefficients =
           Zeros4(lactation_dim, number_of_traits, animal_count, random_degree + 1)
    /\ permanent_coefficients =
           Zeros4(lactation_dim, number_of_traits, animal_count, random_degree + 1)
    /\ solutions = <<>>
    /\ sol_pc = "open"

\* f.readline() of the header line, which is dropped.
SolHeader ==
    /\ sol_pc = "open"
    /\ sol_pc' = "loop"
    /\ UNCHANGED <<solRest, tensorVars, solutions>>

\* One pass of the while loop over a record line: parse, route, read the next line.
\* An assignment whose index is outside the tensor raises IndexError, which leaves
\* the tensors as they were and ends the constructor.
SolRecord ==
    /\ sol_pc = "loop"
    /\ Len(solutions) < MaxRecords
    /\ \E rec \in SolRecords :
          LET tg == SolTarget(rec) IN
          /\ solutions' = Append(solutions, rec)
          /\ IF tg.tensor = "FE"
             THEN /\ FE' = Append(FE, rec.solution)
                  /\ sol_pc' = "loop"
                  /\ UNCHANGED <<fixed_curve_coefficients, additive_coefficients,
                                 permanent_coefficients>>
             ELSE IF tg.tensor = "fixed"
             THEN IF IndexOK(tg.index, FixedShape)
                  THEN /\ fixed_curve_coefficients' =
                              Store3(fixed_curve_coefficients, tg.index, FixedShape,
                                     rec.solution)
                       /\ sol_pc' = "loop"
                       /\ UNCHANGED <<FE, additive_coefficients, permanent_coefficients>>
                  ELSE /\ sol_pc' = "IndexError"
                       /\ UNCHANGED tensorVars
             ELSE IF tg.tensor = "additive"
             THEN IF IndexOK(tg.index, RandomShape)
                  THEN /\ additive_coefficients' =
                              Store4(additive_coefficients, tg.index, RandomShape,
                                     rec.solution)
                       /\ sol_pc' = "loop"
                       /\ UNCHANGED <<FE, fixed_curve_coefficients, permanent_coefficients>>
                  ELSE /\ sol_pc' = "IndexError"
                       /\ UNCHANGED tensorVars
             ELSE IF IndexOK(tg.index, RandomShape)
                  THEN /\ permanent_coefficients' =
                              Store4(permanent_coefficients, tg.index, RandomShape,
                                     rec.solution)
                       /\ sol_pc' = "loop"
                       /\ UNCHANGED <<FE, fixed_curve_coefficients, additive_coefficients>>
                  ELSE /\ sol_pc' = "IndexError"
                       /\ UNCHANGED tensorVars
    /\ UNCHANGED solRest

\* readline() returns '' at the end of the file: the loop ends and FE becomes an array.
SolEOF ==
    /\ sol_pc = "loop"
    /\ sol_pc' = "done"
    /\ UNCHANGED <<solRest, tensorVars, solutions>>

----------------------------------------------------------------------------
(* __add_updated_genetic_parameters__ *)

\* A line of renf90.par: its kind and its text.  "RES" and "COV" lines hold the
\* strings 'RANDOM_RESIDUAL VALUES' and '(CO)VARIANCES', "num" lines hold numbers,
\* "txt" lines hold anything else.
MarkerResidual == [tag |-> "RES", text |-> <<>>]
MarkerCovariances == [tag |-> "COV", text |-> <<>>]
HasResidualMarker(line) == line.tag = "RES"
HasCovariancesMarker(line) == line.tag = "COV"

\* The (co)variance matrices self.R, self.G and self.P: R has one row per
\* trait-lactation pair, G and P have random_degree + 1 rows per pair.
MatrixOf(rows, base) ==
    [i \in 0..(rows - 1) |-> [j \in 1..rows |-> base + i + j]]
R == MatrixOf(number_of_traits * lactation_dim, 10)
G == MatrixOf((random_degree + 1) * number_of_traits * lactation_dim, 40)
P == MatrixOf((random_degree + 1) * number_of_traits * lactation_dim, 70)
Rows(M) == Cardinality(DOMAIN M)

RowLineStuck(M, i) == [tag |-> "num", text |-> M[0]]

\* ' '.join(map(str, M[i])) + '\n'
RowLine(M, i) == [tag |-> "num", text |-> M[i]]

\* Lines read and dropped after the last row of a block has been written.
ParSkip(rows) == ((rows - 1) \div 7) * rows

\* The input file.  A block of the file holds the matrix's old values, one line per
\* row, or, for a row of more than 7 values, the row wrapped over 1 + (rows-1) div 7
\* lines (the layout the skip of the routine counts on).
OldBlock(name, rows, wrapped) ==
    [k \in 1..(rows * (IF wrapped THEN 1 + (rows - 1) \div 7 ELSE 1)) |->
        [tag |-> "num", text |-> <<0>>]]
Filler(n, gap) == [k \in 1..n |-> [tag |-> "txt", text |-> <<gap, k>>]]
ParFile(a, b, c, d, wrapped, perm) ==
    Filler(a, 1) \o <<MarkerResidual>> \o OldBlock("R", Rows(R), wrapped)
    \o Filler(b, 2) \o <<MarkerCovariances>> \o OldBlock("G", Rows(G), wrapped)
    \o Filler(c, 3)
    \o (IF perm THEN <<MarkerCovariances>> \o OldBlock("P", Rows(P), wrapped) ELSE <<>>)
    \o Filler(d, 4)
ParFiles ==
    { ParFile(f[1], f[2], f[3], f[4], wrapped, perm) :
        f \in (0..MaxFill) \X (0..MaxFill) \X (0..MaxFill) \X (0..MaxFill),
        wrapped \in BOOLEAN, perm \in BOOLEAN }

\* Layouts the rewrite is explored with (matrix sizes 1, 2, 4 and 8 rows).
ParLayouts ==
    { [L |-> 1, T |-> 1, N |-> 1, F |-> 1, fd |-> 0, rd |-> 0],
      [L |-> 1, T |-> 2, N |-> 1, F |-> 1, fd |-> 0, rd |-> 1],
      [L |-> 2, T |-> 2, N |-> 1, F |-> 1, fd |-> 0, rd |-> 1],
      [L |-> 2, T |-> 4, N |-> 1, F |-> 1, fd |-> 0, rd |-> 0] }

\* The state before the routine is called on file.
ParStart(file) ==
    /\ renf90_par = file
    /\ par_original = file
    /\ par_pc = "read"
    /\ par_line = 1
    /\ file_lines = <<>>
    /\ read_residual = FALSE /\ read_additive = FALSE /\ read_permanent = FALSE
    /\ residual_line = 0 /\ additive_line = 0 /\ permanent_line = 0
    /\ par_reruns = 0

ParIdle == ParStart(<<>>)

\* One pass of the while loop: the current line is classified, a line is appended to
\* file_lines, and the next line is read (after the skipped ones, when a block ends).
ParLine ==
    /\ par_pc = "read"
    /\ par_line <= Len(renf90_par)
    /\ LET line == renf90_par[par_line] IN
       IF HasResidualMarker(line)
       THEN /\ read_residual' = TRUE
            /\ file_lines' = Append(file_lines, line)
            /\ par_line' = par_line + 1
            /\ UNCHANGED <<read_additive, read_permanent, parCounters, par_pc>>
       ELSE IF HasCovariancesMarker(line)
       THEN /\ IF additive_line > 0
               THEN read_permanent' = TRUE /\ UNCHANGED read_additive
               ELSE read_additive' = TRUE /\ UNCHANGED read_permanent
            /\ file_lines' = Append(file_lines, line)
            /\ par_line' = par_line + 1
            /\ UNCHANGED <<read_residual, parCounters, par_pc>>
       ELSE IF read_residual
       THEN IF residual_line >= Rows(R)
            THEN /\ par_pc' = "IndexError"
                 /\ UNCHANGED <<file_lines, par_line, parFlags, parCounters>>
            ELSE /\ file_lines' = Append(file_lines, RowLine(R, residual_line))
                 /\ residual_line' = residual_line + 1
                 /\ IF residual_line + 1 >= Rows(R)
                    THEN /\ read_residual' = FALSE
                         /\ par_line' = par_line + ParSkip(Rows(R)) + 1
                    ELSE /\ par_line' = par_line + 1
                         /\ UNCHANGED read_residual
                 /\ UNCHANGED <<read_additive, read_permanent, additive_line,
                                permanent_line, par_pc>>
       ELSE IF read_additive
       THEN IF additive_line >= Rows(G)
            THEN /\ par_pc' = "IndexError"
                 /\ UNCHANGED <<file_lines, par_line, parFlags, parCounters>>
            ELSE /\ file_lines' = Append(file_lines, RowLine(G, additive_line))
                 /\ additive_line' = additive_line + 1
                 /\ IF additive_line + 1 >= Rows(G)
                    THEN /\ read_additive' = FALSE
                         /\ par_line' = par_line + ParSkip(Rows(G)) + 1
                    ELSE /\ par_line' = par_line + 1
                         /\ UNCHANGED read_additive
                 /\ UNCHANGED <<read_residual, read_permanent, residual_line,
                                permanent_line, par_pc>>
       ELSE IF read_permanent
       THEN IF permanent_line >= Rows(P)
            THEN /\ par_pc' = "IndexError"
                 /\ UNCHANGED <<file_lines, par_line, parFlags, parCounters>>
            ELSE /\ file_lines' = Append(file_lines, RowLine(P, permanent_line))
                 /\ permanent_line' = permanent_line + 1
                 /\ IF permanent_line + 1 >= Rows(P)
                    THEN /\ read_permanent' = FALSE
                         /\ par_line' = par_line + ParSkip(Rows(P)) + 1
                    ELSE /\ par_line' = par_line + 1
                         /\ UNCHANGED read_permanent
                 /\ UNCHANGED <<read_residual, read_additive, residual_line,
                                additive_line, par_pc>>
       ELSE /\ file_lines' = Append(file_lines, line)
            /\ par_line' = par_line + 1
            /\ UNCHANGED <<parFlags, parCounters, par_pc>>
    /\ UNCHANGED <<parRest, renf90_par, par_original>>

\* readline() returned '': the loop ends and file_lines replaces the file.
ParWrite ==
    /\ par_pc = "read"
    /\ par_line > Len(renf90_par)
    /\ renf90_par' = file_lines
    /\ par_pc' = "done"
    /\ UNCHANGED <<parRest, par_original, par_line, file_lines,
                   parFlags, parCounters>>

\* The routine is called once more, on the file it has just written.
ParAgain ==
    /\ par_pc = "done"
    /\ par_reruns = 0
    /\ par_reruns' = 1
    /\ par_original' = renf90_par
    /\ par_pc' = "read"
    /\ par_line' = 1
    /\ file_lines' = <<>>
    /\ read_residual' = FALSE /\ read_additive' = FALSE /\ read_permanent' = FALSE
    /\ residual_line' = 0 /\ additive_line' = 0 /\ permanent_line' = 0
    /\ UNCHANGED <<layoutVars, solVars, pevVars, drpVars, varVars, ctorVars, curveVars,
                   renf90_par>>

----------------------------------------------------------------------------
(* __read_pev_pec__ *)

\* Side of each animal's PEV-PEC matrix.
Ktotal == (random_degree + 1) * number_of_traits * lactation_dim
PevShape == <<animal_count, Ktotal, Ktotal>>
\* Values in a full lower-triangular packing of the matrix.
Packed == (Ktotal * (Ktotal + 1)) \div 2

PevValues == {1, 2}
SeqsUpTo(S, n) == UNION {[1..k -> S] : k \in 0..n}

\* The lines the solver may write: an animal id inside the pedigree or one step
\* outside, then a packing that is short, full or one value too long.
PevLines == [animal : 0..(animal_count + 1), values : SeqsUpTo(PevValues, Packed + 1)]

\* The for loop over values[1:]: the k-th value is stored at [animal, row, col]; an
\* index outside the tensor raises and ends the loop with the earlier stores made.
RECURSIVE Unpack(_, _, _, _, _, _)
Unpack(tensor, animal, values, k, row, col) ==
    IF k > Len(values)
    THEN [tensor |-> tensor, raised |-> FALSE]
    ELSE IF ~IndexOK(<<animal, row, col>>, PevShape)
    THEN [tensor |-> tensor, raised |-> TRUE]
    ELSE LET stored == Store3(tensor, <<animal, row, col>>, PevShape, values[k])
         IN  IF col = row
             THEN Unpack(stored, animal, values, k + 1, row + 1, 0)
             ELSE Unpack(stored, animal, values, k + 1, row, col + 1)

AddTransposeLowerOnly(M) == M

\* M += M.T (numpy adds the transpose as it was before the addition)
AddTranspose(M) ==
    [r \in 0..(Ktotal - 1) |-> [c \in 0..(Ktotal - 1) |-> M[r][c] + M[c][r]]]

HalveDiagonalSkipped(M) == M

\* M[range(K), range(K)] /= 2
HalveDiagonal(M) ==
    [r \in 0..(Ktotal - 1) |->
        [c \in 0..(Ktotal - 1) |-> IF r = c THEN M[r][c] \div 2 ELSE M[r][c]]]

PevStart ==
    /\ PEV_PECs = Zeros3(animal_count, Ktotal, Ktotal)
    /\ pev_pec_bf90 = <<>>
    /\ pev_pc = "read"

\* One pass of the loop over f.readlines(): unpack the line into the animal's
\* matrix, add the transpose, halve the diagonal.
PevLine ==
    /\ pev_pc = "read"
    /\ Len(pev_pec_bf90) < MaxPevLines
    /\ \E ln \in PevLines :
          LET animal == ln.animal - 1
              u == Unpack(PEV_PECs, animal, ln.values, 1, 0, 0)
              a == AxisAt(animal, animal_count)
          IN  /\ pev_pec_bf90' = Append(pev_pec_bf90, ln)
              /\ IF u.raised \/ ~AxisOK(animal, animal_count)
                 THEN /\ PEV_PECs' = u.tensor
                      /\ pev_pc' = "IndexError"
                 ELSE /\ PEV_PECs' =
                             [u.tensor EXCEPT ![a] = HalveDiagonal(AddTranspose(u.tensor[a]))]
                      /\ pev_pc' = "read"
    /\ UNCHANGED pevRest

\* The last line has been processed.
PevEOF ==
    /\ pev_pc = "read"
    /\ pev_pc' = "done"
    /\ UNCHANGED <<pevRest, PEV_PECs, pev_pec_bf90>>

----------------------------------------------------------------------------
(* Arithmetic of __compute_DRPs__                                          *)
(*                                                                         *)
(* The routine works on float64 arrays, where a division by zero, an       *)
(* overflowing operation and the square root of a negative number do not   *)
(* raise: they yield inf, -inf or nan, which then propagate.  A value is   *)
(* modelled as a record of kind "fin", "pinf", "ninf" or "nan".  A finite  *)
(* value is held exactly as a + b * sqrt(rad), with a, b and rad rationals *)
(* <<numerator, denominator>> in lowest terms and rad not a square, so     *)
(* that whether a value is zero, and its sign, are decided exactly (b = 0  *)
(* for a rational value).  One square root is taken per animal, hence two  *)
(* operands with b # 0 always share rad.  Rounding is not modelled, and    *)
(* zero carries no sign: x / 0 is the infinity of the sign of x.           *)

Abs(n) == IF n < 0 THEN -n ELSE n

RECURSIVE Gcd(_, _)
Gcd(a, b) == IF b = 0 THEN a ELSE Gcd(b, a % b)

\* The rational n / d (d # 0) in lowest terms with a positive denominator.
Rat(n, d) ==
    LET g == Gcd(Abs(n), Abs(d))
        s == IF d < 0 THEN -1 ELSE 1
    IN  <<(s * n) \div g, (s * d) \div g>>

RZero == Rat(0, 1)
RAdd(x, y) == Rat(x[1] * y[2] + y[1] * x[2], x[2] * y[2])
RNeg(x) == <<-x[1], x[2]>>
RSub(x, y) == RAdd(x, RNeg(y))
RMul(x, y) == Rat(x[1] * y[1], x[2] * y[2])
RInv(x) == Rat(x[2], x[1])
RSign(x) == IF x[1] > 0 THEN 1 ELSE IF x[1] < 0 THEN -1 ELSE 0
RLess(x, y) == x[1] * y[2] < y[1] * x[2]

IsSquare(n) == \E k \in 0..n : k * k = n
Root(n) == CHOOSE k \in 0..n : k * k = n

Fin(r) == [k |-> "fin", a |-> r, b |-> RZero, rad |-> RZero]
Mk(a, b, rad) ==
    IF b = RZero THEN Fin(a) ELSE [k |-> "fin", a |-> a, b |-> b, rad |-> rad]
NaN == [k |-> "nan", a |-> RZero, b |-> RZero, rad |-> RZero]
PInf == [k |-> "pinf", a |-> RZero, b |-> RZero, rad |-> RZero]
NInf == [k |-> "ninf", a |-> RZero, b |-> RZero, rad |-> RZero]
Inf(sign) == IF sign > 0 THEN PInf ELSE NInf
Num(n, d) == Fin(Rat(n, d))
Zero == Num(0, 1)

RadOf(x, y) == IF x.b # RZero THEN x.rad ELSE y.rad

\* Sign of a value that is not nan: 1, 0 or -1.  When a and b * sqrt(rad) have
\* opposite signs the larger in magnitude decides: |a| > |b| sqrt(rad) iff
\* (a / b)^2 > rad.
Sign(x) ==
    IF x.k = "pinf" THEN 1
    ELSE IF x.k = "ninf" THEN -1
    ELSE LET sa == RSign(x.a)
             sb == RSign(x.b)
         IN  IF sb = 0 THEN sa
             ELSE IF sa = 0 \/ sa = sb THEN sb
             ELSE IF RLess(x.rad, RMul(RMul(x.a, RInv(x.b)), RMul(x.a, RInv(x.b))))
                  THEN sa
             ELSE sb

IsZero(x) == x.k = "fin" /\ Sign(x) = 0

Add(x, y) ==
    IF x.k = "nan" \/ y.k = "nan" THEN NaN
    ELSE IF x.k = "fin" /\ y.k = "fin"
         THEN Mk(RAdd(x.a, y.a), RAdd(x.b, y.b), RadOf(x, y))
    ELSE IF x.k = "fin" THEN y
    ELSE IF y.k = "fin" \/ x.k = y.k THEN x
    ELSE NaN

Neg(x) ==
    IF x.k = "nan" THEN NaN
    ELSE IF x.k = "pinf" THEN NInf
    ELSE IF x.k = "ninf" THEN PInf
    ELSE Mk(RNeg(x.a), RNeg(x.b), x.rad)

Sub(x, y) == Add(x, Neg(y))

Mul(x, y) ==
    IF x.k = "nan" \/ y.k = "nan" THEN NaN
    ELSE IF x.k = "fin" /\ y.k = "fin"
         THEN LET rad == RadOf(x, y)
              IN  Mk(RAdd(RMul(x.a, y.a), RMul(RMul(x.b, y.b), rad)),
                     RAdd(RMul(x.a, y.b), RMul(x.b, y.a)), rad)
    ELSE IF Sign(x) = 0 \/ Sign(y) = 0 THEN NaN
    ELSE Inf(Sign(x) * Sign(y))

\* 1 / y for a finite y # 0: (a - b s) / (a^2 - b^2 rad).
Recip(y) ==
    LET den == RInv(RSub(RMul(y.a, y.a), RMul(RMul(y.b, y.b), y.rad)))
    IN  Mk(RMul(y.a, den), RMul(RNeg(y.b), den), y.rad)

Div(x, y) ==
    IF x.k = "nan" \/ y.k = "nan" THEN NaN
    ELSE IF y.k = "fin"
         THEN IF Sign(y) = 0
              THEN IF Sign(x) = 0 THEN NaN ELSE Inf(Sign(x))
              ELSE IF x.k = "fin" THEN Mul(x, Recip(y))
              ELSE Inf(Sign(x) * Sign(y))
    ELSE IF x.k = "fin" THEN Zero
    ELSE NaN

\* np.sqrt of a rational value or of an infinity.
Sqrt(x) ==
    IF x.k = "nan" \/ x.k = "ninf" THEN NaN
    ELSE IF x.k = "pinf" THEN PInf
    ELSE IF Sign(x) < 0 THEN NaN
    ELSE IF IsSquare(x.a[1]) /\ IsSquare(x.a[2])
         THEN Num(Root(x.a[1]), Root(x.a[2]))
    ELSE [k |-> "fin", a |-> RZero, b |-> Rat(1, 1), rad |-> x.a]

\* x > 0.0 (false for nan)
Positive(x) == x.k # "nan" /\ Sign(x) > 0

----------------------------------------------------------------------------
(* __compute_DRPs__ *)

\* Values the inputs are drawn from: DIM-averaged reliabilities (1 - PEV / var_G,
\* at most 1 and negative when PEV exceeds var_G), DIM-averaged heritabilities
\* and breeding values at the last DIM point.
RelGrid == { Rat(-2, 1), Rat(-1, 1), Rat(0, 1), Rat(1, 4), Rat(1, 2), Rat(1, 1) }
H2Grid == { Rat(0, 1), Rat(1, 4), Rat(1, 2), Rat(1, 1) }
EbvGrid == { Rat(-1, 1), Rat(2, 1) }

Animals == 0..(animal_count - 1)
Lactations == 0..(lactation_dim - 1)
Traits == 0..(number_of_traits - 1)
\* Parent ids as Renum numbers them: 1..animal_count, 0 for an unknown parent.
ParentIds == 0..animal_count

\* np.where(condition, x, y), one element
Where(condition, x, y) == IF condition THEN x ELSE y

ParentValueUnguarded(values, parent) == values[AxisAt(parent - 1, animal_count)]

\* One element of np.where(parents > 0, values[parents - 1], 0): the element at
\* index parent - 1 is read whatever the parent id (index -1, the last animal,
\* for an unknown parent) and np.where then selects.
ParentValue(values, parent) ==
    Where(parent > 0, values[AxisAt(parent - 1, animal_count)], Zero)

\* The locals of __compute_DRPs__(lactation, trait), element i of each array,
\* in the order the routine assigns them; each step adds its locals to the
\* record p of those assigned before it.  REL, EBV and h2 are the animal's own
\* avg_RELs and last-DIM EBVs elements and the pair's avg_heritabilities.
ParentAverages(lactation, trait, i) ==
    [REL |-> avg_RELs[lactation][trait][i],
     EBV |-> EBVs[lactation][trait][i],
     h2 |-> avg_heritabilities[lactation][trait],
     r2_gm |-> Div(Add(ParentValue(avg_RELs[lactation][trait], sires[i]),
                       ParentValue(avg_RELs[lactation][trait], dams[i])), Num(4, 1)),
     gm |-> Div(Add(ParentValue(EBVs[lactation][trait], sires[i]),
                    ParentValue(EBVs[lactation][trait], dams[i])), Num(2, 1))]

AlfaDelta(p) ==
    p @@ [alfa |-> Div(Num(1, 1), Sub(Num(1, 2), p.r2_gm)),
          delta |-> Div(Sub(Num(1, 2), p.r2_gm), Sub(Num(1, 1), p.REL)),
          lambda_star |-> Div(Sub(Num(1, 1), p.h2), p.h2)]

AlfaDeltaSum(p) ==
    p @@ [alfa_delta |-> Add(Mul(p.alfa, p.alfa), Div(Num(16, 1), p.delta))]

ZlgmZgm(p) ==
    p @@ [Zlgm_Zgm |->
            Add(Mul(p.lambda_star, Sub(Mul(Num(1, 2), p.alfa), Num(4, 1))),
                Mul(Mul(Num(1, 2), p.lambda_star), Sqrt(p.alfa_delta)))]

ZliZi(p) ==
    p @@ [Zli_Zi |->
            Add(Mul(p.delta, p.Zlgm_Zgm),
                Mul(Mul(Num(2, 1), p.lambda_star),
                    Sub(Mul(Num(2, 1), p.delta), Num(1, 1))))]

R2iY1(p) ==
    p @@ [r2i |-> Sub(Num(1, 1), Div(p.lambda_star, Add(p.Zli_Zi, p.lambda_star))),
          y1 |-> Add(Mul(Mul(Num(-2, 1), p.lambda_star), p.gm),
                     Mul(Add(p.Zli_Zi, Mul(Num(2, 1), p.lambda_star)), p.EBV))]

DRPWi(p) ==
    p @@ [DRP |-> Div(p.y1, p.Zli_Zi),
          wi |-> Div(Sub(Num(1, 1), p.h2),
                     Mul(Add(Num(1, 2), Div(Sub(Num(1, 1), p.r2i), p.r2i)), p.h2))]

Garrick(lactation, trait, i) ==
    DRPWi(R2iY1(ZliZi(ZlgmZgm(AlfaDeltaSum(AlfaDelta(
        ParentAverages(lactation, trait, i)))))))

KeepAll(wi, computed) == computed

\* One element of np.where(wi > 0.0, computed, 0.0)
KeepPositive(wi, computed) == Where(Positive(wi), computed, Zero)

DrpStart(s, d, rel, h2, ebv) ==
    /\ sires = s
    /\ dams = d
    /\ avg_RELs = rel
    /\ avg_heritabilities = h2
    /\ EBVs = ebv
    /\ DRPs = [l \in Lactations |-> [t \in Traits |-> [i \in Animals |-> Zero]]]
    /\ DRP_RELs = [l \in Lactations |-> [t \in Traits |-> [i \in Animals |-> Zero]]]
    /\ DRP_weights = [l \in Lactations |-> [t \in Traits |-> [i \in Animals |-> Zero]]]
    /\ drp_locals = [i \in Animals |-> Zero]
    /\ drp_calls = 0

\* The tensors as __init__ allocates them (np.zeros), no pedigree.
DrpIdle ==
    DrpStart([i \in Animals |-> 0], [i \in Animals |-> 0],
             [l \in Lactations |-> [t \in Traits |-> [i \in Animals |-> Zero]]],
             [l \in Lactations |-> [t \in Traits |-> Zero]],
             [l \in Lactations |-> [t \in Traits |-> [i \in Animals |-> Zero]]])

\* The next call of the loop "for i in range(lactation_dim): for j in
\* range(number_of_traits): self.__compute_DRPs__(i, j)".
ComputeDRPs ==
    /\ drp_calls < lactation_dim * number_of_traits
    /\ LET lactation == drp_calls \div number_of_traits
           trait == drp_calls % number_of_traits
       IN  /\ drp_locals' = [i \in Animals |-> Garrick(lactation, trait, i)]
           /\ DRPs' = [DRPs EXCEPT ![lactation][trait] =
                  [i \in Animals |-> KeepPositive(drp_locals'[i].wi, drp_locals'[i].DRP)]]
           /\ DRP_RELs' = [DRP_RELs EXCEPT ![lactation][trait] =
                  [i \in Animals |-> KeepPositive(drp_locals'[i].wi, drp_locals'[i].r2i)]]
           /\ DRP_weights' = [DRP_weights EXCEPT ![lactation][trait] =
                  [i \in Animals |-> KeepPositive(drp_locals'[i].wi, drp_locals'[i].wi)]]
           /\ drp_calls' = drp_calls + 1
    /\ UNCHANGED <<drpRest, drpInputs>>

----------------------------------------------------------------------------
(* Basis tables (__init__ lines 160-166, __add_legendre_coefficients__)    *)
(*                                                                         *)
(* legendre_coefficients[d, k] = legendre(k)(scaled_dim_range[d]) *        *)
(* sqrt(k + 0.5).  The polynomial value is held exactly and the factor     *)
(* sqrt(k + 0.5) is kept apart: the factors of different degrees are       *)
(* linearly independent over the rationals.                                *)

\* dim_range[1] - dim_range[0] + 1, the length of the DIM axis
DimCount == dim_range[2] - dim_range[1] + 1
DimPoints == 0..(DimCount - 1)

\* -1 + 2 * (scaled_dim_range - dim_range[0]) / (dim_range[1] - dim_range[0]);
\* for a range of one day this is 0 / 0, nan.
ScaledDim(d) ==
    Add(Num(-1, 1), Div(Mul(Num(2, 1), Num(d, 1)), Num(dim_range[2] - dim_range[1], 1)))

\* Coefficients of scipy.special.legendre(k), highest power first (k <= 2).
LegendrePoly(k) ==
    CASE k = 0 -> <<Num(1, 1)>>
      [] k = 1 -> <<Num(1, 1), Zero>>
      [] k = 2 -> <<Num(3, 2), Zero, Num(-1, 2)>>

\* numpy.polyval: y = 0; for each coefficient c: y = y * x + c
RECURSIVE Horner(_, _, _, _)
Horner(c, x, n, y) ==
    IF n > Len(c) THEN y ELSE Horner(c, x, n + 1, Add(Mul(y, x), c[n]))

\* legendre(k)(scaled_dim_range[d])
LegendreAt(k, d) == Horner(LegendrePoly(k), ScaledDim(d), 1, Zero)

\* legendre_coefficients[d, a] * legendre_coefficients[d, b]
BasisProduct(d, a, b) ==
    Mul(Mul(LegendreAt(a, d), LegendreAt(b, d)),
        Sqrt(Num((2 * a + 1) * (2 * b + 1), 4)))

RECURSIVE SumSeq(_, _)
SumSeq(seq, n) == IF n = 0 THEN Zero ELSE Add(SumSeq(seq, n - 1), seq[n])

\* mean over the DIM axis of one (lactation, trait[, animal]) row
MeanOverDim(row) ==
    Div(SumSeq([n \in 1..DimCount |-> row[n - 1]], DimCount), Num(DimCount, 1))

----------------------------------------------------------------------------
(* __compute_fixed_curve_values__ and __compute_random_curves_values__ *)

\* legendre_coefficients[d, k] = legendre(k)(scaled_dim_range)[d] * np.sqrt(k + 0.5)
LegendreCoefficient(d, k) == Mul(LegendreAt(k, d), Sqrt(Num(2 * k + 1, 2)))

\* legendre_partial_sums[d, k]: np.cumsum(self.legendre_coefficients, axis=0)
LegendrePartialSum(d, k) ==
    SumSeq([n \in 1..(d + 1) |-> LegendreCoefficient(n - 1, k)], d + 1)

\* One term of the row-by-vector product: legendre_partial_sums[d, k] * coefficients[k]
CurveTerm(d, k, coefficient) == Mul(LegendrePartialSum(d, k), Num(coefficient, 1))

\* (legendre_partial_sums[:, range(degree + 1)] @ coefficients)[d], as its terms.  The
\* terms are rational multiples of sqrt(1/2), sqrt(3/2), sqrt(5/2): their sum is
\* nan when a term is nan and is zero only when every term is zero.
CurveValue(d, degree, coefficients) ==
    [k \in 0..degree |-> CurveTerm(d, k, coefficients[k])]

CurveStart ==
    /\ fixed_curve_values =
           [l \in Lactations |-> [t \in Traits |-> [d \in DimPoints |->
               [k \in 0..fixed_degree |-> Zero]]]]
    /\ EBV_values =
           [l \in Lactations |-> [t \in Traits |-> [i \in Animals |-> [d \in DimPoints |->
               [k \in 0..random_degree |-> Zero]]]]]
    /\ PERMs =
           [l \in Lactations |-> [t \in Traits |-> [i \in Animals |-> [d \in DimPoints |->
               [k \in 0..random_degree |-> Zero]]]]]
    /\ curve_pc = "fixed"

ComputeFixedCurveValues ==
    /\ curve_pc = "fixed"
    /\ fixed_curve_values' =
           [l \in Lactations |-> [t \in Traits |-> [d \in DimPoints |->
               CurveValue(d, fixed_degree, fixed_curve_coefficients[l][t])]]]
    /\ curve_pc' = "random"
    /\ UNCHANGED <<curveRest, EBV_values, PERMs>>

ComputeRandomCurvesValues ==
    /\ curve_pc = "random"
    /\ EBV_values' =
           [l \in Lactations |-> [t \in Traits |-> [i \in Animals |-> [d \in DimPoints |->
               CurveValue(d, random_degree, additive_coefficients[l][t][i])]]]]
    /\ PERMs' =
           [l \in Lactations |-> [t \in Traits |-> [i \in Animals |-> [d \in DimPoints |->
               CurveValue(d, random_degree, permanent_coefficients[l][t][i])]]]]
    /\ curve_pc' = "done"
    /\ UNCHANGED <<curveRest, fixed_curve_values>>

----------------------------------------------------------------------------
(* __compute_variances_and_heritabilities__ *)

\* Entries the (co)variance matrices G, P and R are drawn from.
VarianceGrid == { Rat(-1, 1), Rat(0, 1), Rat(2, 1) }

\* Symmetric n x n matrices over the grid, as the estimator or the caller supplies them.
SymmetricMatrices(n) ==
    { [assigned |-> TRUE, M |-> m] :
        m \in { x \in [0..(n - 1) -> [0..(n - 1) -> {Fin(r) : r \in VarianceGrid}]] :
                    \A r, c \in 0..(n - 1) : x[r][c] = x[c][r] } }

\* Diagonal n x n matrices over the grid (residuals uncorrelated between traits).
DiagonalMatrices(n) ==
    { [assigned |-> TRUE,
       M |-> [r \in 0..(n - 1) |-> [c \in 0..(n - 1) |-> IF r = c THEN v[r] ELSE Zero]]] :
        v \in [0..(n - 1) -> {Fin(r) : r \in VarianceGrid}] }

\* self.G = None (likewise P, R), lines 89-91
Unassigned == [assigned |-> FALSE, M |-> <<>>]

\* (legendre_random_coefficients @ M[min_idx:max_idx, min_idx:max_idx]
\*  @ legendre_random_coefficients.T).diagonal()[d], with min_idx = i * (random_degree + 1)
Project(M, i, d) ==
    LET K == random_degree + 1
        min_idx == i * K
    IN  SumSeq([n \in 1..(K * K) |->
                  Mul(M[min_idx + ((n - 1) \div K)][min_idx + ((n - 1) % K)],
                      BasisProduct(d, (n - 1) \div K, (n - 1) % K))], K * K)

ZerosLTD == [l \in Lactations |-> [t \in Traits |-> [d \in DimPoints |-> Zero]]]
ZerosLT == [l \in Lactations |-> [t \in Traits |-> Zero]]

VarStart(range, g, p, r) ==
    /\ dim_range = range
    /\ self_G = g
    /\ self_P = p
    /\ self_R = r
    /\ var_G = ZerosLTD
    /\ var_P = ZerosLTD
    /\ var_R = ZerosLT
    /\ heritabilities = ZerosLTD
    /\ repeatabilities = ZerosLTD
    /\ avg_var_G = ZerosLT
    /\ avg_var_P = ZerosLT
    /\ avg_repeatabilities = ZerosLT
    /\ var_pc = "start"

\* The fields as __init__ leaves them: G, P and R are None, the tensors np.zeros.
VarIdle == VarStart(<<5, 6>>, Unassigned, Unassigned, Unassigned)

HeritabilityOverResidual(g, p, r) == Div(g, r)

\* var_G / pheno_variance, with repeat_variance = var_G + var_P and
\* pheno_variance = repeat_variance + var_R
Heritability(g, p, r) == Div(g, Add(Add(g, p), r))

\* repeat_variance / pheno_variance
Repeatability(g, p, r) == Div(Add(g, p), Add(Add(g, p), r))

\* The whole routine.  Subscripting a matrix that is still None raises TypeError
\* in the first pass of the loop, after the assignments that precede it there.
ComputeVariancesAndHeritabilities ==
    /\ var_pc = "start"
    /\ IF self_G.assigned /\ self_P.assigned /\ self_R.assigned
       THEN /\ var_G' = [l \in Lactations |-> [t \in Traits |-> [d \in DimPoints |->
                            Project(self_G.M, l * number_of_traits + t, d)]]]
            /\ var_P' = [l \in Lactations |-> [t \in Traits |-> [d \in DimPoints |->
                            Project(self_P.M, l * number_of_traits + t, d)]]]
            /\ var_R' = [l \in Lactations |-> [t \in Traits |->
                            self_R.M[l * number_of_traits + t][l * number_of_traits + t]]]
            /\ heritabilities' = [l \in Lactations |-> [t \in Traits |-> [d \in DimPoints |->
                            Heritability(var_G'[l][t][d], var_P'[l][t][d], var_R'[l][t])]]]
            /\ repeatabilities' = [l \in Lactations |-> [t \in Traits |-> [d \in DimPoints |->
                            Repeatability(var_G'[l][t][d], var_P'[l][t][d], var_R'[l][t])]]]
            /\ avg_var_G' = [l \in Lactations |-> [t \in Traits |-> MeanOverDim(var_G'[l][t])]]
            /\ avg_var_P' = [l \in Lactations |-> [t \in Traits |-> MeanOverDim(var_P'[l][t])]]
            /\ avg_heritabilities' =
                   [l \in Lactations |-> [t \in Traits |-> MeanOverDim(heritabilities'[l][t])]]
            /\ avg_repeatabilities' =
                   [l \in Lactations |-> [t \in Traits |-> MeanOverDim(repeatabilities'[l][t])]]
            /\ var_pc' = "done"
       ELSE /\ var_G' = IF self_G.assigned
                        THEN [var_G EXCEPT ![0][0] = [d \in DimPoints |-> Project(self_G.M, 0, d)]]
                        ELSE var_G
            /\ var_P' = IF self_G.assigned /\ self_P.assigned
                        THEN [var_P EXCEPT ![0][0] = [d \in DimPoints |-> Project(self_P.M, 0, d)]]
                        ELSE var_P
            /\ var_pc' = "TypeError"
            /\ UNCHANGED <<var_R, heritabilities, repeatabilities, avg_var_G, avg_var_P,
                           avg_heritabilities, avg_repeatabilities>>
    /\ UNCHANGED <<varRest, varInputs>>

----------------------------------------------------------------------------
(* The constructor TestDayModel.__init__: its steps in program order.  The  *)
(* steps modelled in detail elsewhere in this module (the control-file     *)
(* rewrite, the readers, the DRP step) appear here only as steps that run   *)
(* and return; the variance step runs in full.                             *)

PipelineMisordered ==
    << "check_genomic_options", "Renum", "allocate", "basis",
       "estimate_parameters", "add_updated_genetic_parameters", "add_pev_pec",
       "add_snp_effects", "blupf90", "read_blupf90_solutions", "read_pev_pec",
       "remove_postgsf90_incompatible_options", "postGSf90", "read_SNP_effects",
       "read_SNP_p_values", "compute_SNP_effects", "compute_SNP_p_values",
       "compute_fixed_curve_values", "compute_random_curves_values",
       "compute_pevs_rels", "compute_variances_and_heritabilities",
       "compute_DRPs" >>

\* The calls of __init__ in the order of lines 98-195 ("allocate" is the block of
\* np.zeros assignments, "basis" the block of lines 160-166, "compute_DRPs" the
\* loop over all (lactation, trait) pairs).
Pipeline ==
    << "check_genomic_options", "Renum", "allocate", "basis",
       "estimate_parameters", "add_updated_genetic_parameters", "add_pev_pec",
       "add_snp_effects", "blupf90", "read_blupf90_solutions", "read_pev_pec",
       "remove_postgsf90_incompatible_options", "postGSf90", "read_SNP_effects",
       "read_SNP_p_values", "compute_SNP_effects", "compute_SNP_p_values",
       "compute_fixed_curve_values", "compute_random_curves_values",
       "compute_variances_and_heritabilities", "compute_pevs_rels",
       "compute_DRPs" >>

\* Steps inside "if use_blupf90_modules:" and inside "if snp_effects or snp_p_values:".
BlupSteps ==
    { "estimate_parameters", "add_updated_genetic_parameters", "add_pev_pec",
      "add_snp_effects", "blupf90", "read_blupf90_solutions", "read_pev_pec" }
SnpSteps ==
    { "remove_postgsf90_incompatible_options", "postGSf90", "read_SNP_effects",
      "read_SNP_p_values", "compute_SNP_effects", "compute_SNP_p_values" }

\* Whether the conditions around the call of step let it run.
RunsUnder(step) ==
    /\ step \in BlupSteps => use_blupf90_modules
    /\ step \in SnpSteps => (use_blupf90_modules /\ (snp_effects \/ snp_p_values))
    /\ step = "compute_SNP_effects" => snp_effects
    /\ step = "compute_SNP_p_values" => snp_p_values

PositionOf(step) == CHOOSE n \in 1..Len(Pipeline) : Pipeline[n] = step

\* The step that runs after step returns, "done" after the last one.
StepAfter(step) ==
    LET later == { n \in (PositionOf(step) + 1)..Len(Pipeline) : RunsUnder(Pipeline[n]) }
    IN  IF later = {} THEN "done"
        ELSE Pipeline[CHOOSE n \in later : \A m \in later : n <= m]

EstimationMethods == { "em-reml", "ai-reml", "ai-em-reml", "gibbs" }

\* An initial variance given by the caller, and the values an estimator returns.
SuppliedVariance(n) ==
    [assigned |-> TRUE,
     M |-> [r \in 0..(n - 1) |-> [c \in 0..(n - 1) |-> IF r = c THEN Num(2, 1) ELSE Zero]]]
EstimatedVariances(n) ==
    { [assigned |-> TRUE,
       M |-> [r \in 0..(n - 1) |-> [c \in 0..(n - 1) |-> IF r = c THEN v ELSE Zero]]] :
        v \in { Zero, Num(2, 1) } }

CtorStart(cfg) ==
    /\ snp_effects = cfg.snp_effects
    /\ snp_p_values = cfg.snp_p_values
    /\ genomic_data = cfg.genomic_data
    /\ estimation_method = cfg.estimation_method
    /\ ag_variance = cfg.ag_variance
    /\ res_variance = cfg.res_variance
    /\ pe_variance = cfg.pe_variance
    /\ has_perm = cfg.has_perm
    /\ use_blupf90_modules = cfg.use_blupf90_modules
    /\ ctor_pc = Pipeline[1]
    /\ ctor_log = <<>>

\* The default arguments of __init__, with a model that has a permanent effect.
DefaultArguments ==
    [snp_effects |-> FALSE, snp_p_values |-> FALSE, genomic_data |-> "None",
     estimation_method |-> "em-reml", ag_variance |-> Unassigned,
     res_variance |-> Unassigned, pe_variance |-> Unassigned, has_perm |-> TRUE,
     use_blupf90_modules |-> TRUE]

CtorIdle == CtorStart(DefaultArguments)

\* The tensors and matrices a step of the constructor assigns.
Writes(step) ==
    CASE step = "basis" ->
             { "scaled_dim_range", "legendre_coefficients", "legendre_random_coefficients",
               "legendre_partial_sums", "legendre_random_sums" }
      [] step = "estimate_parameters" -> { "G", "P", "R" }
      [] step = "read_blupf90_solutions" ->
             { "FE", "fixed_curve_coefficients", "additive_coefficients",
               "permanent_coefficients" }
      [] step = "read_pev_pec" -> { "PEV_PECs" }
      [] step = "compute_fixed_curve_values" -> { "fixed_curve_values" }
      [] step = "compute_random_curves_values" -> { "EBVs", "PERMs" }
      [] step = "compute_variances_and_heritabilities" ->
             { "var_G", "var_P", "var_R", "heritabilities", "repeatabilities", "avg_var_G",
               "avg_var_P", "avg_heritabilities", "avg_repeatabilities" }
      [] step = "compute_pevs_rels" -> { "PEVs", "RELs", "avg_PEVs", "avg_RELs" }
      [] step = "compute_DRPs" -> { "DRPs", "DRP_RELs", "DRP_weights" }
      [] OTHER -> {}

\* The tensors and matrices a step of the constructor reads.
Reads(step) ==
    CASE step = "compute_fixed_curve_values" ->
             { "legendre_partial_sums", "fixed_curve_coefficients" }
      [] step = "compute_random_curves_values" ->
             { "legendre_partial_sums", "additive_coefficients", "permanent_coefficients" }
      [] step = "compute_variances_and_heritabilities" ->
             { "legendre_random_coefficients", "G", "P", "R" }
      [] step = "compute_pevs_rels" ->
             { "PEV_PECs", "legendre_random_coefficients", "var_G" }
      [] step = "compute_DRPs" -> { "avg_RELs", "avg_heritabilities", "EBVs" }
      [] OTHER -> {}

\* self.__check_genomic_options__()
CheckGenomicOptions ==
    /\ ctor_pc = "check_genomic_options"
    /\ ctor_log' = Append(ctor_log, ctor_pc)
    /\ ctor_pc' = IF (snp_effects \/ snp_p_values) /\ genomic_data = "None"
                  THEN "ValueError"
                  ELSE StepAfter(ctor_pc)
    /\ UNCHANGED <<ctorConfig, ctorRest, varVars, avg_heritabilities>>

\* self.__estimate_parameters__()
EstimateParameters ==
    /\ ctor_pc = "estimate_parameters"
    /\ ctor_log' = Append(ctor_log, ctor_pc)
    /\ IF estimation_method \in EstimationMethods
       THEN /\ \E g \in EstimatedVariances((random_degree + 1) * number_of_traits * lactation_dim),
                  p \in EstimatedVariances((random_degree + 1) * number_of_traits * lactation_dim),
                  r \in EstimatedVariances(number_of_traits * lactation_dim) :
                  /\ self_G' = g
                  /\ self_P' = p
                  /\ self_R' = r
            /\ ctor_pc' = StepAfter(ctor_pc)
       ELSE IF estimation_method # "None"
       THEN /\ ctor_pc' = "ValueError"
            /\ UNCHANGED <<self_G, self_P, self_R>>
       ELSE IF \/ ~ag_variance.assigned
               \/ ~res_variance.assigned
               \/ (~pe_variance.assigned /\ has_perm)
       THEN /\ ctor_pc' = "ValueError"
            /\ UNCHANGED <<self_G, self_P, self_R>>
       ELSE /\ self_G' = ag_variance
            /\ self_P' = pe_variance
            /\ self_R' = res_variance
            /\ ctor_pc' = StepAfter(ctor_pc)
    /\ UNCHANGED <<ctorConfig, ctorRest, dim_range, var_G, var_P, var_R, heritabilities,
                   repeatabilities, avg_var_G, avg_var_P, avg_repeatabilities, var_pc,
                   avg_heritabilities>>

\* self.__compute_variances_and_heritabilities__()
VarianceStep ==
    /\ ctor_pc = "compute_variances_and_heritabilities"
    /\ ComputeVariancesAndHeritabilities
    /\ ctor_log' = Append(ctor_log, ctor_pc)
    /\ ctor_pc' = IF var_pc' = "TypeError" THEN "TypeError" ELSE StepAfter(ctor_pc)
    /\ UNCHANGED ctorConfig

\* The steps of the constructor that edit renf90.par.  Here a line of the file is
\* the sequence of its characters, without the newline that ends it.

\* y in x, for strings
Contains(y, x) ==
    \E i \in 0..(Len(x) - Len(y)) : SubSeq(x, i + 1, i + Len(y)) = y

\* str(n) for an integer n >= 0
RECURSIVE Str(_)
Str(n) ==
    IF n < 10
    THEN <<(<<"0", "1", "2", "3", "4", "5", "6", "7", "8", "9">>)[n + 1]>>
    ELSE Str(n \div 10) \o Str(n % 10)

incompatible_options_keeping_pev_pec ==
    { <<"O", "P", "T", "I", "O", "N", " ", "s", "o", "l", " ", "s", "e">>,
      <<"O", "P", "T", "I", "O", "N", " ", "s", "t", "o", "r", "e", " ", "a", "c", "c", "u", "r", "a", "c", "y">> }

\* ['OPTION sol se', 'OPTION store accuracy', 'OPTION store_pev_pec']
incompatible_options ==
    { <<"O", "P", "T", "I", "O", "N", " ", "s", "o", "l", " ", "s", "e">>,
      <<"O", "P", "T", "I", "O", "N", " ", "s", "t", "o", "r", "e", " ", "a", "c", "c", "u", "r", "a", "c", "y">>,
      <<"O", "P", "T", "I", "O", "N", " ", "s", "t", "o", "r", "e", "_", "p", "e", "v", "_", "p", "e", "c">> }

\* list(filter(lambda x: not [y for y in incompatible_options if y in x], lines))
filtered_lines(lines) ==
    SelectSeq(lines, LAMBDA x : { y \in incompatible_options : Contains(y, x) } = {})

\* 'OPTION store_pev_pec ' + str(len(self.fixed_effects) + self.fixed_degree + 2)
PevPecOption ==
    <<"O", "P", "T", "I", "O", "N", " ", "s", "t", "o", "r", "e", "_", "p", "e", "v", "_", "p", "e", "c", " ">> \o Str(len_fixed_effects + fixed_degree + 2)

\* 'OPTION snp_p_value'
SnpPValueOption ==
    <<"O", "P", "T", "I", "O", "N", " ", "s", "n", "p", "_", "p", "_", "v", "a", "l", "u", "e">>

\* self.__add_pev_pec__()
AddPevPec ==
    /\ ctor_pc = "add_pev_pec"
    /\ renf90_par' = Append(renf90_par, PevPecOption)
    /\ ctor_log' = Append(ctor_log, ctor_pc)
    /\ ctor_pc' = StepAfter(ctor_pc)
    /\ UNCHANGED fileRest

\* self.__add_snp_effects__()
AddSnpEffects ==
    /\ ctor_pc = "add_snp_effects"
    /\ renf90_par' = IF snp_p_values THEN Append(renf90_par, SnpPValueOption) ELSE renf90_par
    /\ ctor_log' = Append(ctor_log, ctor_pc)
    /\ ctor_pc' = StepAfter(ctor_pc)
    /\ UNCHANGED fileRest

\* remove_postgsf90_incompatible_options()
RemovePostgsf90IncompatibleOptions ==
    /\ ctor_pc = "remove_postgsf90_incompatible_options"
    /\ renf90_par' = filtered_lines(renf90_par)
    /\ ctor_log' = Append(ctor_log, ctor_pc)
    /\ ctor_pc' = StepAfter(ctor_pc)
    /\ UNCHANGED fileRest

\* Any other step of the constructor: it runs and returns.
PlainStep ==
    /\ ctor_pc \in { Pipeline[n] : n \in 1..Len(Pipeline) }
                     \ { "check_genomic_options", "estimate_parameters",
                         "compute_variances_and_heritabilities", "add_pev_pec",
                         "add_snp_effects", "remove_postgsf90_incompatible_options" }
    /\ ctor_log' = Append(ctor_log, ctor_pc)
    /\ ctor_pc' = StepAfter(ctor_pc)
    /\ UNCHANGED <<ctorConfig, ctorRest, varVars, avg_heritabilities>>

----------------------------------------------------------------------------
(* Specifications: one per routine, the other routines' state at rest *)

Init ==
    /\ \E ly \in SolLayouts : SetLayout(ly)
    /\ SolInit
    /\ ParIdle
    /\ PevStart
    /\ DrpIdle
    /\ VarIdle
    /\ CtorIdle
    /\ CurveStart

Next == SolHeader \/ SolRecord \/ SolEOF

Spec == Init /\ [][Next]_vars

InitPar ==
    /\ \E ly \in ParLayouts : SetLayout(ly)
    /\ SolInit
    /\ \E file \in ParFiles : ParStart(file)
    /\ PevStart
    /\ DrpIdle
    /\ VarIdle
    /\ CtorIdle
    /\ CurveStart

NextPar == ParLine \/ ParWrite

SpecPar == InitPar /\ [][NextPar]_vars

\* The rewrite applied a second time to its own output.
NextParTwice == ParLine \/ ParWrite \/ ParAgain

SpecParTwice == InitPar /\ [][NextParTwice]_vars

\* Layouts the PEV-PEC reader is explored with (2 x 2 matrices; 2 animals, 1 animal).
PevLayouts ==
    { [L |-> 1, T |-> 1, N |-> 2, F |-> 1, fd |-> 0, rd |-> 1],
      [L |-> 1, T |-> 2, N |-> 1, F |-> 1, fd |-> 0, rd |-> 0] }

InitPev ==
    /\ \E ly \in PevLayouts : SetLayout(ly)
    /\ SolInit
    /\ ParIdle
    /\ PevStart
    /\ DrpIdle
    /\ VarIdle
    /\ CtorIdle
    /\ CurveStart

NextPev == PevLine \/ PevEOF

SpecPev == InitPev /\ [][NextPev]_vars

\* Layouts the DRP step is explored with (2 animals of 1 trait; 1 animal of 2 traits).
DrpLayouts ==
    { [L |-> 1, T |-> 1, N |-> 2, F |-> 1, fd |-> 0, rd |-> 0],
      [L |-> 1, T |-> 2, N |-> 1, F |-> 1, fd |-> 0, rd |-> 0] }

InitDRP ==
    /\ \E ly \in DrpLayouts : SetLayout(ly)
    /\ SolInit
    /\ ParIdle
    /\ PevStart
    /\ VarIdle
    /\ CtorIdle
    /\ CurveStart
    /\ \E s \in [Animals -> ParentIds], d \in [Animals -> ParentIds],
          rel \in [Lactations -> [Traits -> [Animals -> {Fin(r) : r \in RelGrid}]]],
          h2 \in [Lactations -> [Traits -> {Fin(r) : r \in H2Grid}]],
          ebv \in [Lactations -> [Traits -> [Animals -> {Fin(r) : r \in EbvGrid}]]] :
          DrpStart(s, d, rel, h2, ebv)

NextDRP == ComputeDRPs

SpecDRP == InitDRP /\ [][NextDRP]_vars

\* Layouts and DIM ranges the variance step is explored with: one trait with a
\* 2 x 2 block over three DIM points, two traits with 1 x 1 blocks over two.
VarCases ==
    { [ly |-> [L |-> 1, T |-> 1, N |-> 1, F |-> 1, fd |-> 0, rd |-> 1], range |-> <<5, 7>>],
      [ly |-> [L |-> 1, T |-> 2, N |-> 1, F |-> 1, fd |-> 0, rd |-> 0], range |-> <<5, 6>>] }

InitVar ==
    /\ \E c \in VarCases :
          /\ SetLayout(c.ly)
          /\ \E g \in SymmetricMatrices((random_degree + 1) * number_of_traits * lactation_dim),
                p \in SymmetricMatrices((random_degree + 1) * number_of_traits * lactation_dim),
                r \in DiagonalMatrices(number_of_traits * lactation_dim) :
                VarStart(c.range, g, p, r)
    /\ SolInit
    /\ ParIdle
    /\ PevStart
    /\ DrpIdle
    /\ CtorIdle
    /\ CurveStart

NextVar == ComputeVariancesAndHeritabilities /\ UNCHANGED ctorVars

SpecVar == InitVar /\ [][NextVar]_vars

\* Layout and DIM range the constructor is explored with, and its arguments.
CtorCase ==
    [ly |-> [L |-> 1, T |-> 1, N |-> 1, F |-> 1, fd |-> 0, rd |-> 0], range |-> <<5, 6>>]

CtorArguments ==
    [snp_effects : BOOLEAN, snp_p_values : BOOLEAN, genomic_data : {"None", "given"},
     estimation_method : EstimationMethods \cup {"None", "reml"},
     ag_variance : {Unassigned, SuppliedVariance(1)},
     res_variance : {Unassigned, SuppliedVariance(1)},
     pe_variance : {Unassigned, SuppliedVariance(1)},
     has_perm : BOOLEAN, use_blupf90_modules : BOOLEAN]

InitCtor ==
    /\ SetLayout(CtorCase.ly)
    /\ SolInit
    /\ ParIdle
    /\ PevStart
    /\ DrpIdle
    /\ VarStart(CtorCase.range, Unassigned, Unassigned, Unassigned)
    /\ CurveStart
    /\ \E cfg \in CtorArguments : CtorStart(cfg)

NextCtor ==
    \/ CheckGenomicOptions
    \/ EstimateParameters
    \/ AddPevPec
    \/ AddSnpEffects
    \/ RemovePostgsf90IncompatibleOptions
    \/ VarianceStep
    \/ PlainStep

SpecCtor == InitCtor /\ [][NextCtor]_vars

\* The constructor about to run step, every earlier step having run and returned.
CtorAt(cfg, step) ==
    /\ snp_effects = cfg.snp_effects
    /\ snp_p_values = cfg.snp_p_values
    /\ genomic_data = cfg.genomic_data
    /\ estimation_method = cfg.estimation_method
    /\ ag_variance = cfg.ag_variance
    /\ res_variance = cfg.res_variance
    /\ pe_variance = cfg.pe_variance
    /\ has_perm = cfg.has_perm
    /\ use_blupf90_modules = cfg.use_blupf90_modules
    /\ ctor_pc = step
    /\ ctor_log = SelectSeq(SubSeq(Pipeline, 1, PositionOf(step) - 1),
                            LAMBDA earlier :
                                /\ earlier \in BlupSteps => cfg.use_blupf90_modules
                                /\ earlier \in SnpSteps => FALSE)

\* Lines renf90.par can hold when __add_updated_genetic_parameters__ has returned.
FilterPool ==
    { <<"O", "P", "T", "I", "O", "N", " ", "s", "o", "l", " ", "s", "e">>,
      <<"O", "P", "T", "I", "O", "N", " ", "s", "t", "o", "r", "e", " ", "a", "c", "c", "u", "r", "a", "c", "y", " ", "3">>,
      <<"O", "P", "T", "I", "O", "N", " ", "s", "t", "o", "r", "e", "_", "p", "e", "v", "_", "p", "e", "c", " ", "3">>,
      <<"O", "P", "T", "I", "O", "N", " ", "s", "n", "p", "_", "p", "_", "v", "a", "l", "u", "e">>,
      <<"O", "P", "T", "I", "O", "N", " ", "m", "i", "s", "s", "i", "n", "g", " ", "-", "9", "9", "9">>,
      <<"R", "A", "N", "D", "O", "M", "_", "G", "R", "O", "U", "P">> }

FilterFiles == UNION { [1..n -> FilterPool] : n \in 0..MaxFilterLines }

FilterLayouts ==
    { [L |-> 1, T |-> 1, N |-> 1, F |-> 1, fd |-> 0, rd |-> 0],
      [L |-> 1, T |-> 1, N |-> 1, F |-> 4, fd |-> 4, rd |-> 0] }

\* Arguments with which the constructor reaches __add_pev_pec__ and later postGSf90.
FilterArguments ==
    { cfg \in CtorArguments :
        /\ cfg.use_blupf90_modules
        /\ cfg.snp_effects \/ cfg.snp_p_values
        /\ cfg.genomic_data = "given"
        /\ cfg.estimation_method = "None"
        /\ cfg.ag_variance.assigned /\ cfg.res_variance.assigned /\ cfg.pe_variance.assigned
        /\ cfg.has_perm }

InitFilter ==
    /\ \E ly \in FilterLayouts : SetLayout(ly)
    /\ SolInit
    /\ \E file \in FilterFiles : ParStart(file)
    /\ PevStart
    /\ DrpIdle
    /\ \E cfg \in FilterArguments :
          /\ CtorAt(cfg, "add_pev_pec")
          /\ VarStart(CtorCase.range, cfg.ag_variance, cfg.pe_variance, cfg.res_variance)
    /\ CurveStart

NextFilter ==
    \/ AddPevPec
    \/ AddSnpEffects
    \/ RemovePostgsf90IncompatibleOptions
    \/ VarianceStep
    \/ PlainStep

SpecFilter == InitFilter /\ [][NextFilter]_vars

\* Layouts, DIM ranges and coefficients the curve steps are explored with.
CurveCases ==
    { [ly |-> [L |-> 1, T |-> 1, N |-> 1, F |-> 1, fd |-> 1, rd |-> 1], range |-> r] :
          r \in { <<5, 5>>, <<5, 6>>, <<5, 7>> } }
    \cup { [ly |-> [L |-> 1, T |-> 1, N |-> 1, F |-> 1, fd |-> 2, rd |-> 0], range |-> <<5, 7>>] }

CoefficientValues == {0} \cup SolValues

InitCurve ==
    /\ \E c \in CurveCases :
          /\ SetLayout(c.ly)
          /\ VarStart(c.range, Unassigned, Unassigned, Unassigned)
    /\ FE = <<>>
    /\ fixed_curve_coefficients \in
           [Lactations -> [Traits -> [0..fixed_degree -> CoefficientValues]]]
    /\ additive_coefficients \in
           [Lactations -> [Traits -> [Animals -> [0..random_degree -> CoefficientValues]]]]
    /\ permanent_coefficients \in
           [Lactations -> [Traits -> [Animals -> [0..random_degree -> CoefficientValues]]]]
    /\ solutions = <<>>
    /\ sol_pc = "done"
    /\ ParIdle
    /\ PevStart
    /\ DrpIdle
    /\ CtorIdle
    /\ CurveStart

NextCurve == ComputeFixedCurveValues \/ ComputeRandomCurvesValues

SpecCurve == InitCurve /\ [][NextCurve]_vars

----------------------------------------------------------------------------
(* Properties of the solution demultiplexer *)

\* The record consumed by the step that has just been taken.
LastRecord(stream) == stream[Len(stream)]

\* The bands of the layout as the specification words them.
InFixedEffectBand(e) == e <= len_fixed_effects
InFixedCurveBand(e) ==
    len_fixed_effects < e /\ e <= len_fixed_effects + fixed_degree + 1
InAdditiveBand(e) ==
    /\ len_fixed_effects + fixed_degree + 1 < e
    /\ e <= len_fixed_effects + fixed_degree + random_degree + 2
InPermanentBand(e) == len_fixed_effects + fixed_degree + random_degree + 2 < e

Cells3(shape) == (0..(shape[1] - 1)) \X (0..(shape[2] - 1)) \X (0..(shape[3] - 1))
Cells4(shape) ==
    (0..(shape[1] - 1)) \X (0..(shape[2] - 1)) \X (0..(shape[3] - 1)) \X (0..(shape[4] - 1))

\* tensor' is tensor with value stored at the numpy index, and nothing else changed;
\* an index outside the tensor stores nothing and raises.
Assigned3(old, new, index, value) ==
    /\ IndexOK(index, FixedShape)
    /\ \A c \in Cells3(FixedShape) :
          new[c[1]][c[2]][c[3]] =
              IF c = IndexAt(index, FixedShape) THEN value ELSE old[c[1]][c[2]][c[3]]
Assigned4(old, new, index, value) ==
    /\ IndexOK(index, RandomShape)
    /\ \A c \in Cells4(RandomShape) :
          new[c[1]][c[2]][c[3]][c[4]] =
              IF c = IndexAt(index, RandomShape) THEN value
              ELSE old[c[1]][c[2]][c[3]][c[4]]

RoutedAsSpecified(r) ==
    LET F == len_fixed_effects
        lactation == (r.trait - 1) \div number_of_traits
        trait == (r.trait - 1) % number_of_traits
        fixedIndex == <<lactation, trait, r.effect - F - 1>>
        additiveIndex == <<lactation, trait, r.level - 1, r.effect - F - fixed_degree - 2>>
        permanentIndex ==
            <<lactation, trait, r.level - 1, r.effect - F - fixed_degree - random_degree - 3>>
        Raised == sol_pc' = "IndexError" /\ UNCHANGED tensorVars
    IN  \/ /\ InFixedEffectBand(r.effect)
           /\ FE' = Append(FE, r.solution)
           /\ UNCHANGED <<fixed_curve_coefficients, additive_coefficients,
                          permanent_coefficients>>
        \/ /\ InFixedCurveBand(r.effect)
           /\ \/ /\ Assigned3(fixed_curve_coefficients, fixed_curve_coefficients',
                              fixedIndex, r.solution)
                 /\ UNCHANGED <<FE, additive_coefficients, permanent_coefficients>>
              \/ ~IndexOK(fixedIndex, FixedShape) /\ Raised
        \/ /\ InAdditiveBand(r.effect)
           /\ \/ /\ Assigned4(additive_coefficients, additive_coefficients',
                              additiveIndex, r.solution)
                 /\ UNCHANGED <<FE, fixed_curve_coefficients, permanent_coefficients>>
              \/ ~IndexOK(additiveIndex, RandomShape) /\ Raised
        \/ /\ InPermanentBand(r.effect)
           /\ \/ /\ Assigned4(permanent_coefficients, permanent_coefficients',
                              permanentIndex, r.solution)
                 /\ UNCHANGED <<FE, fixed_curve_coefficients, additive_coefficients>>
              \/ ~IndexOK(permanentIndex, RandomShape) /\ Raised

\* C1: every solution record is routed by its effect band: effect <= F appends the
\* value to the end of FE; F < effect <= F+fixed_degree+1 stores it at
\* fixed_curve_coefficients[lactation, trait, effect-F-1]; the next random_degree+1
\* effects store it at additive_coefficients[lactation, trait, level-1,
\* effect-F-fixed_degree-2]; any higher effect stores it at
\* permanent_coefficients[lactation, trait, level-1, effect-F-fixed_degree-random_degree-3],
\* with lactation = (trait_index-1) div T and trait = (trait_index-1) mod T; the record
\* changes nothing else (an assignment whose index is outside the tensor stores nothing
\* and raises).
C1_RecordRouting ==
    [][solutions' # solutions => RoutedAsSpecified(LastRecord(solutions'))]_vars

\* A finished run that sent one record to FE and one to the last permanent coefficient.
C1_Witness ==
    /\ sol_pc = "done"
    /\ random_degree = 1
    /\ FE = <<1>>
    /\ permanent_coefficients[0][1][0][1] = 2
    /\ Len(solutions) = 2

\* A stream the layout allows.
ValidRecord(r) ==
    /\ 1 <= r.trait /\ r.trait <= lactation_dim * number_of_traits
    /\ 1 <= r.effect /\ r.effect <= LastEffect
    /\ 1 <= r.level /\ r.level <= animal_count
ValidStream(stream) ==
    /\ \A i \in 1..Len(stream) : ValidRecord(stream[i])
    /\ \A i, j \in 1..Len(stream) :
          i # j => <<stream[i].trait, stream[i].effect, stream[i].level>>
                   # <<stream[j].trait, stream[j].effect, stream[j].level>>
    /\ \A i \in 1..Len(stream) : InFixedCurveBand(stream[i].effect) => stream[i].level = 1

\* What the tensors hold where the specification sends record r.
HeldFor(r) ==
    LET F == len_fixed_effects
        lactation == (r.trait - 1) \div number_of_traits
        trait == (r.trait - 1) % number_of_traits
    IN  IF InFixedCurveBand(r.effect)
        THEN fixed_curve_coefficients[lactation][trait][r.effect - F - 1]
        ELSE IF InAdditiveBand(r.effect)
        THEN additive_coefficients[lactation][trait][r.level - 1]
                                  [r.effect - F - fixed_degree - 2]
        ELSE permanent_coefficients[lactation][trait][r.level - 1]
                                   [r.effect - F - fixed_degree - random_degree - 3]

WrittenCells ==
    Cardinality({c \in Cells3(FixedShape) :
                    fixed_curve_coefficients[c[1]][c[2]][c[3]] # 0})
    + Cardinality({c \in Cells4(RandomShape) :
                    additive_coefficients[c[1]][c[2]][c[3]][c[4]] # 0})
    + Cardinality({c \in Cells4(RandomShape) :
                    permanent_coefficients[c[1]][c[2]][c[3]][c[4]] # 0})

\* C2: for a stream valid for the layout, every record read so far was consumed once
\* and went to exactly one destination: no record raised, FE holds one entry per
\* fixed-effect record, every other record's value is still in its own tensor cell
\* (no later record overwrote it), and as many cells are written as there are such
\* records.
C2_DemuxComplete ==
    ValidStream(solutions) =>
        LET fe == {i \in 1..Len(solutions) : InFixedEffectBand(solutions[i].effect)}
            coef == (1..Len(solutions)) \ fe
        IN  /\ sol_pc # "IndexError"
            /\ Len(FE) = Cardinality(fe)
            /\ \A i \in coef : HeldFor(solutions[i]) = solutions[i].solution
            /\ WrittenCells = Cardinality(coef)

\* A valid stream whose two records share trait, level and coefficient offset and
\* differ only in the band (additive, permanent).
C2_Witness ==
    /\ sol_pc = "done"
    /\ Len(solutions) = 2
    /\ ValidStream(solutions)
    /\ InAdditiveBand(solutions[1].effect)
    /\ InPermanentBand(solutions[2].effect)
    /\ solutions[1].trait = solutions[2].trait
    /\ solutions[2].effect = solutions[1].effect + random_degree + 1
    /\ solutions[1].solution # solutions[2].solution

\* A record with an index outside the layout.
Malformed(r) ==
    \/ r.trait < 1 \/ r.trait > lactation_dim * number_of_traits
    \/ r.effect < 1 \/ r.effect > LastEffect
    \/ ~InFixedEffectBand(r.effect) /\ ~InFixedCurveBand(r.effect)
       /\ (r.level < 1 \/ r.level > animal_count)

\* C3: a record whose trait, effect or level index is outside the declared bounds
\* aborts the run: it is the last record read and the read has raised, so it was
\* never stored in a tensor cell nor appended to FE.
C3_MalformedIsFatal ==
    \A i \in 1..Len(solutions) :
        Malformed(solutions[i]) => sol_pc = "IndexError" /\ i = Len(solutions)

----------------------------------------------------------------------------
(* Properties of the control-file update *)

\* The line that holds row k of matrix M: its values separated by spaces.
LineOfRow(M, k) == [tag |-> "num", text |-> M[k]]

CovarianceMarkers(file) == {i \in 1..Len(file) : file[i].tag = "COV"}
ResidualMarkers(file) == {i \in 1..Len(file) : file[i].tag = "RES"}
Least(S) == CHOOSE i \in S : \A j \in S : i <= j

\* The marker at line i of file is followed by the rows of M in order, and no other
\* line of the file holds a row of M.
BlockHolds(file, i, M) ==
    /\ i + Rows(M) <= Len(file)
    /\ \A k \in 0..(Rows(M) - 1) : file[i + 1 + k] = LineOfRow(M, k)
    /\ {j \in 1..Len(file) : \E k \in 0..(Rows(M) - 1) : file[j] = LineOfRow(M, k)}
           = (i + 1)..(i + Rows(M))

IsFrameLine(line) == line.tag # "num"
Frame(file) == SelectSeq(file, IsFrameLine)

\* C5: the routine rewrites only the numeric lines of the three blocks: the marker
\* lines and every line before, between and after the blocks are in the output
\* unchanged, once each and in their original order, whatever the size of the
\* matrices.
C5_FramePreserved ==
    par_pc = "done" => Frame(renf90_par) = Frame(par_original)

----------------------------------------------------------------------------
(* Properties of the PEV-PEC reader *)

\* C6: whatever lines have been processed, every animal's stored matrix equals its
\* own transpose: animals with one line, with several lines and with none.
C6_PevPecSymmetric ==
    pev_pc # "IndexError" =>
        \A a \in 0..(animal_count - 1) :
            \A r, c \in 0..(Ktotal - 1) : PEV_PECs[a][r][c] = PEV_PECs[a][c][r]

\* Two full lines for the same animal with different covariances have been read.
C6_Witness ==
    /\ pev_pc = "done"
    /\ Len(pev_pec_bf90) = 2
    /\ pev_pec_bf90[1].animal = 1 /\ pev_pec_bf90[2].animal = 1
    /\ pev_pec_bf90[1].values = <<1, 1, 1>>
    /\ pev_pec_bf90[2].values = <<2, 2, 2>>
    /\ PEV_PECs[0][1][0] = 3

\* Lines read so far that address animal a's matrix.
LinesFor(a) ==
    {i \in 1..Len(pev_pec_bf90) :
        /\ AxisOK(pev_pec_bf90[i].animal - 1, animal_count)
        /\ AxisAt(pev_pec_bf90[i].animal - 1, animal_count) = a}

\* Place of entry (r, c), c <= r, in the row-major lower-triangular packing.
PackedAt(r, c) == (r * (r + 1)) \div 2 + c + 1

----------------------------------------------------------------------------
(* Properties of the DRP step *)

\* The (lactation, trait) of the call that has just returned.
LastLactation == (drp_calls - 1) \div number_of_traits
LastTrait == (drp_calls - 1) % number_of_traits

StoredFor(i) ==
    <<DRPs[LastLactation][LastTrait][i], DRP_RELs[LastLactation][LastTrait][i],
      DRP_weights[LastLactation][LastTrait][i]>>

\* C8: after a call of __compute_DRPs__, an animal whose computed weight wi is
\* strictly positive has the computed DRP, r2i and wi stored; every other animal
\* (wi <= 0, or wi not a number) has 0 stored three times; and no stored DRP
\* weight, of any (lactation, trait), is negative.
C8_DRPZeroing ==
    drp_calls > 0 =>
        /\ \A i \in Animals :
              LET g == drp_locals[i]
              IN  IF g.wi.k # "nan" /\ Sign(g.wi) > 0
                  THEN StoredFor(i) = <<g.DRP, g.r2i, g.wi>>
                  ELSE StoredFor(i) = <<Zero, Zero, Zero>>
        /\ \A l \in Lactations, t \in Traits, i \in Animals :
              DRP_weights[l][t][i].k = "nan" \/ Sign(DRP_weights[l][t][i]) >= 0

\* One animal with a negative computed weight and zeros stored, beside an
\* animal with a positive weight that is stored.
C8_Witness ==
    /\ drp_calls > 0
    /\ \E i, j \in Animals :
          /\ drp_locals[i].wi.k = "fin" /\ Sign(drp_locals[i].wi) < 0
          /\ StoredFor(i) = <<Zero, Zero, Zero>>
          /\ drp_locals[j].wi.k = "fin" /\ Sign(drp_locals[j].wi) > 0
          /\ StoredFor(j)[3] = drp_locals[j].wi
          /\ StoredFor(j)[1] # Zero

\* C9: in a call of __compute_DRPs__, a parent id 0 contributes 0 and a parent
\* id p > 0 contributes the value of animal p - 1, to r2_gm (a quarter of the
\* sum of the parents' avg_RELs) and to gm (half the sum of the parents' EBVs
\* at the last DIM point); with both parents unknown r2_gm = 0 and gm = 0.
C9_ParentLookup ==
    drp_calls > 0 =>
        \A i \in Animals :
            LET REL == avg_RELs[LastLactation][LastTrait]
                EBV == EBVs[LastLactation][LastTrait]
                Contribution(values, p) == IF p = 0 THEN Zero ELSE values[p - 1]
                g == drp_locals[i]
            IN  /\ g.r2_gm = Div(Add(Contribution(REL, sires[i]),
                                     Contribution(REL, dams[i])), Num(4, 1))
                /\ g.gm = Div(Add(Contribution(EBV, sires[i]),
                                  Contribution(EBV, dams[i])), Num(2, 1))
                /\ (sires[i] = 0 /\ dams[i] = 0) => (g.r2_gm = Zero /\ g.gm = Zero)

\* The first animal has an unknown sire and itself as the known dam, while the
\* last animal, which index -1 addresses, holds other, non-zero values.
C9_Witness ==
    /\ drp_calls > 0
    /\ animal_count = 2
    /\ sires[0] = 0 /\ dams[0] = 1
    /\ avg_RELs[0][0][0] = Num(1, 4) /\ avg_RELs[0][0][1] = Num(1, 2)
    /\ EBVs[0][0][0] = Num(2, 1) /\ EBVs[0][0][1] = Num(-1, 1)
    /\ drp_locals[0].r2_gm = Num(1, 16)
    /\ drp_locals[0].gm = Num(1, 1)

\* C10: for an animal with unknown sire and dam, REL[i] < 0.5 and
\* 0 < h2 < 1, none of the divisors 0.5 - r2_gm, 1 - REL[i], delta, Zli_Zi,
\* Zli_Zi + lambda* and r2i of the DRP computation is zero.
C10_NoZeroDivisor ==
    drp_calls > 0 =>
        \A i \in Animals :
            LET REL == avg_RELs[LastLactation][LastTrait][i]
                h2 == avg_heritabilities[LastLactation][LastTrait]
                g == drp_locals[i]
            IN  ( /\ sires[i] = 0 /\ dams[i] = 0
                  /\ RLess(REL.a, Rat(1, 2))
                  /\ RLess(RZero, h2.a) /\ RLess(h2.a, Rat(1, 1)) )
                => /\ ~IsZero(Sub(Num(1, 2), g.r2_gm))
                   /\ ~IsZero(Sub(Num(1, 1), REL))
                   /\ ~IsZero(g.delta)
                   /\ ~IsZero(g.Zli_Zi)
                   /\ ~IsZero(Add(g.Zli_Zi, g.lambda_star))
                   /\ ~IsZero(g.r2i)

----------------------------------------------------------------------------
(* Properties of the variance step *)

InUnitInterval(x) ==
    x.k = "fin" /\ Sign(x) >= 0 /\ Sign(Sub(Num(1, 1), x)) >= 0

\* C11: after the variance step, at every (lactation, trait) and DIM point where
\* var_G > 0, var_P > 0 and var_R > 0, the heritability and the repeatability
\* both lie in [0, 1].
C11_HeritabilityBounds ==
    var_pc = "done" =>
        \A l \in Lactations, t \in Traits, d \in DimPoints :
            (Positive(var_G[l][t][d]) /\ Positive(var_P[l][t][d]) /\ Positive(var_R[l][t]))
            => /\ InUnitInterval(heritabilities[l][t][d])
               /\ InUnitInterval(repeatabilities[l][t][d])

\* A DIM point with three positive variances, whose heritability var_G / pheno
\* is strictly inside (0, 1) and below the repeatability.
C11_Witness ==
    /\ var_pc = "done"
    /\ \E l \in Lactations, t \in Traits, d \in DimPoints :
          /\ Positive(var_G[l][t][d]) /\ Positive(var_P[l][t][d]) /\ Positive(var_R[l][t])
          /\ heritabilities[l][t][d] =
                 Div(var_G[l][t][d],
                     Add(Add(var_G[l][t][d], var_P[l][t][d]), var_R[l][t]))
          /\ Positive(heritabilities[l][t][d])
          /\ Positive(Sub(repeatabilities[l][t][d], heritabilities[l][t][d]))
          /\ Positive(Sub(Num(1, 1), repeatabilities[l][t][d]))

\* C18: applied with the same R, G and P to a file it has already rewritten, the
\* routine ends without error and writes the identical file: the same lines in the
\* same order, none dropped, whatever the number of rows of the matrices.
C18_RewriteIdempotent ==
    par_reruns = 1 =>
        /\ par_pc # "IndexError"
        /\ par_pc = "done" => renf90_par = par_original

----------------------------------------------------------------------------
(* Properties of the constructor *)

Ran(step) == \E n \in 1..Len(ctor_log) : ctor_log[n] = step

Raised == ctor_pc \in { "ValueError", "TypeError" }

PhenotypicVariance(l, t, d) == Add(Add(var_G[l][t][d], var_P[l][t][d]), var_R[l][t])

Degenerate ==
    \E l \in Lactations, t \in Traits, d \in DimPoints :
        ~Positive(PhenotypicVariance(l, t, d))

\* C12: once the variance step has run over a (lactation, trait) whose phenotypic
\* variance var_G + var_P + var_R is zero or negative at some DIM point, the
\* constructor has ended with an error and neither the PEV/REL step nor the DRP
\* step has run.
C12_DegeneracyIsFatal ==
    (Ran("compute_variances_and_heritabilities") /\ var_pc = "done" /\ Degenerate)
    => /\ Raised
       /\ ~Ran("compute_pevs_rels")
       /\ ~Ran("compute_DRPs")

SnpWithoutGenomicData == (snp_effects \/ snp_p_values) /\ genomic_data = "None"

MissingInitialVariance ==
    /\ estimation_method = "None"
    /\ \/ ~ag_variance.assigned
       \/ ~res_variance.assigned
       \/ (has_perm /\ ~pe_variance.assigned)

UnrecognizedMethod == estimation_method \notin EstimationMethods \cup {"None"}

\* Renumbering, allocation, basis construction, the control-file writes and the
\* external programs.
ComputationSteps ==
    { "Renum", "allocate", "basis", "add_updated_genetic_parameters", "add_pev_pec",
      "add_snp_effects", "remove_postgsf90_incompatible_options", "blupf90", "postGSf90" }

\* C13: when the arguments hold a configuration error (a SNP option without genomic
\* data, no estimation method with a required initial variance missing, or an
\* unrecognized estimation method), for either value of use_blupf90_modules, the
\* constructor never completes and none of renumbering, allocation, basis
\* construction, control-file write or external program has run.
C13_ConfigErrorsFirst ==
    (SnpWithoutGenomicData \/ MissingInitialVariance \/ UnrecognizedMethod)
    => /\ ctor_pc # "done"
       /\ \A step \in ComputationSteps : ~Ran(step)

\* The place of a step in the dependency order basis -> demultiplexed coefficients
\* -> curves -> variances -> PEV/REL -> DRP; 0 for a step that fills none of them.
Stage(step) ==
    CASE step = "basis" -> 1
      [] step = "read_blupf90_solutions" -> 2
      [] step \in { "compute_fixed_curve_values", "compute_random_curves_values" } -> 3
      [] step = "compute_variances_and_heritabilities" -> 4
      [] step = "compute_pevs_rels" -> 5
      [] step = "compute_DRPs" -> 6
      [] OTHER -> 0

\* The steps that have run followed by the step about to run, if there is one.
Started ==
    IF ctor_pc \in { "done", "ValueError", "TypeError" }
    THEN ctor_log
    ELSE Append(ctor_log, ctor_pc)

\* C14: in every run of the constructor the steps that fill the tensors start in
\* the order basis, demultiplexed coefficients, curves, variances, PEV/REL, DRP,
\* each after the previous one has returned, and no step reads a tensor that a
\* step starting after it assigns.
C14_PipelineOrdering ==
    \A m \in 1..Len(Started), n \in 1..Len(Started) :
        m < n =>
            /\ (Stage(Started[m]) > 0 /\ Stage(Started[n]) > 0)
                   => Stage(Started[m]) <= Stage(Started[n])
            /\ Stage(Started[m]) # Stage(Started[n]) \/ Stage(Started[m]) \in {0, 3}
            /\ Reads(Started[m]) \cap Writes(Started[n]) = {}

\* A completed run in which all six stages have run.
C14_Witness ==
    /\ ctor_pc = "done"
    /\ \A k \in 1..6 : \E n \in 1..Len(ctor_log) : Stage(ctor_log[n]) = k
    /\ Ran("compute_fixed_curve_values") /\ Ran("compute_random_curves_values")

\* The three options postGSf90 does not support.
UnsupportedOptions ==
    { <<"O", "P", "T", "I", "O", "N", " ", "s", "o", "l", " ", "s", "e">>,
      <<"O", "P", "T", "I", "O", "N", " ", "s", "t", "o", "r", "e", " ", "a", "c", "c", "u", "r", "a", "c", "y">>,
      <<"O", "P", "T", "I", "O", "N", " ", "s", "t", "o", "r", "e", "_", "p", "e", "v", "_", "p", "e", "c">> }

RequestsUnsupported(line) == \E option \in UnsupportedOptions : Contains(option, line)

\* The file the solver ran on: the file after the parameter update, the
\* store_pev_pec line and, when p-values are requested, the snp_p_value line.
SolverFile ==
    par_original \o <<PevPecOption>>
    \o (IF snp_p_values THEN <<SnpPValueOption>> ELSE <<>>)

\* C15: when postGSf90 is invoked, and from then on, no line of renf90.par holds
\* 'OPTION sol se', 'OPTION store accuracy' or 'OPTION store_pev_pec' (the appended
\* store_pev_pec line included), and the file is exactly the other lines of the
\* file the solver ran on, unchanged and in order, the appended
\* 'OPTION snp_p_value' line among them.
C15_IncompatibilityFilter ==
    (ctor_pc = "postGSf90" \/ Ran("postGSf90"))
    => /\ \A n \in 1..Len(renf90_par) : ~RequestsUnsupported(renf90_par[n])
       /\ renf90_par = SelectSeq(SolverFile, LAMBDA line : ~RequestsUnsupported(line))
       /\ snp_p_values =>
              (renf90_par # <<>> /\ renf90_par[Len(renf90_par)] = SnpPValueOption)

\* postGSf90 is about to be invoked on a file from which the filter has removed
\* the appended store_pev_pec line and a line that was there before, and which
\* still holds an earlier line followed by the appended snp_p_value line.
C15_Witness ==
    /\ ctor_pc = "postGSf90"
    /\ snp_p_values
    /\ Len(par_original) = 2
    /\ RequestsUnsupported(par_original[1])
    /\ ~RequestsUnsupported(par_original[2])
    /\ renf90_par = <<par_original[2], SnpPValueOption>>

\* C17: whenever the constructor is about to run the variance step, or has run
\* it, for either value of use_blupf90_modules, each of G, P and R has been
\* assigned a matrix and is not None.
C17_VarianceInputsSet ==
    (ctor_pc = "compute_variances_and_heritabilities"
        \/ Ran("compute_variances_and_heritabilities"))
    => (self_G.assigned /\ self_P.assigned /\ self_R.assigned)

----------------------------------------------------------------------------
(* Properties of the curve reconstruction *)

AllZero(coefficients) == \A k \in DOMAIN coefficients : coefficients[k] = 0

\* The value whose terms are given is zero.
ZeroValue(terms) == \A k \in DOMAIN terms : IsZero(terms[k])

\* C16: after both curve steps, a fixed curve whose coefficients are all zero is
\* zero at every DIM offset, and so are the EBV curve and the permanent-effect
\* curve of an animal whose additive, respectively permanent, coefficients are all
\* zero.
C16_ZeroCoefficientCurve ==
    curve_pc = "done" =>
        \A l \in Lactations, t \in Traits, d \in DimPoints :
            /\ AllZero(fixed_curve_coefficients[l][t])
                   => ZeroValue(fixed_curve_values[l][t][d])
            /\ \A i \in Animals :
                   /\ AllZero(additive_coefficients[l][t][i])
                          => ZeroValue(EBV_values[l][t][i][d])
                   /\ AllZero(permanent_coefficients[l][t][i])
                          => ZeroValue(PERMs[l][t][i][d])

====
